---- MODULE Spec2Model ----
(***************************************************************************)
(* Statcast collectors of hanks_tank_backend/local_data_processing:        *)
(* the five collector scripts share one pipeline shape (plan the periods,  *)
(* fetch the units of a period with retries, combine them, load the        *)
(* combined table into the store) and differ in details.  The variable     *)
(* `variant` says which script is running:                                 *)
(*   "parallel"  collect_statcast_parallel.py                              *)
(*   "direct"    collect_statcast_direct.py                                *)
(*   "local"     collect_statcast_local.py                                 *)
(*   "y2025"     collect_statcast_2025.py                                  *)
(*   "m2020"     collect_2020_missing.py                                   *)
(* The data source is assumed to honour the date filter of a request: the  *)
(* rows it returns for a unit of period (year, month) carry a game_date of *)
(* that month, so they are stored under the period key (year, month).      *)
(***************************************************************************)
EXTENDS Integers, Sequences, FiniteSets, TLC

\* ------------------------------------------------------------------ bounds
\* years_to_collect is modelled as 1..NumYears, months_to_collect as 1..NumMonths
NumYears == 2
NumMonths == 2
\* the units (days, weekly chunks) of one period window are 1..NumUnits
NumUnits == 2
\* size of the worker pool (the scripts pass max_workers=10)
max_workers == 2
\* how many times the standalone Loader harness (SpecLoader) calls the Loader
MaxLoaderCalls == 2
\* largest max_retries argument the standalone retry harness (SpecRetry) tries
MaxRetriesArg == 3
\* store calls that raise plus user faults (Ctrl-C) during one run
MaxFaults == 1

\* a month with more than this many stored rows is skipped by the planner
Threshold == 1000

Variants == {"parallel", "direct", "local", "y2025", "m2020"}
PoolVariants == {"parallel", "y2025", "m2020"}
AppendOnlyVariants == {"y2025", "m2020"}
PlannerVariants == {"direct", "local"}

Units == 1..NumUnits
Periods == (1..NumYears) \X (1..NumMonths)

\* row counts a period may hold before a run starts
InitCounts == {500, 1200}
\* the same around the planner's threshold, for the planner harness
PlannerCounts == {500, Threshold, Threshold + 1}

\* rows the data source holds for unit u (distinct per unit, so that a sum
\* of them tells which units it is made of)
DayRows(u) == 100 * (2 ^ u)

RECURSIVE SumRows(_)
SumRows(s) == IF s = << >> THEN 0 ELSE DayRows(Head(s)) + SumRows(Tail(s))

RECURSIVE SumN(_)
SumN(s) == IF s = << >> THEN 0 ELSE Head(s).n + SumN(Tail(s))

RECURSIVE SetRows(_)
SetRows(S) ==
    IF S = {} THEN 0
    ELSE LET u == CHOOSE x \in S : TRUE IN DayRows(u) + SetRows(S \ {u})

SeqSet(s) == {s[i] : i \in 1..Len(s)}

\* ------------------------------------------------------------ the scripts
\* default max_retries of collect_day / collect_month
DefaultMaxRetries(v) ==
    CASE v = "parallel" -> 2
      [] v = "direct"   -> 3
      [] v = "local"    -> 3
      [] v = "y2025"    -> 2
      [] v = "m2020"    -> 2

\* a retry loop of range(max_retries) in every collector
LoopBoundExclusive(v, mr) == mr

\* number of iterations of the retry loop: range(max_retries), or
\* range(max_retries + 1) in the 2025 and 2020 collectors
LoopBound(v, mr) == IF v \in AppendOnlyVariants THEN mr + 1 ELSE mr

\* the years a script walks: range(2015, 2025), or the single year of the
\* 2025 and 2020 collectors
YearCount(v) == IF v \in AppendOnlyVariants THEN 1 ELSE NumYears

\* the candidate periods in the order the nested loops visit them
CandidateSeq(v) ==
    [k \in 1..(YearCount(v) * NumMonths) |->
        << ((k - 1) \div NumMonths) + 1, ((k - 1) % NumMonths) + 1 >>]

\* responses of the data source to one request:
\*   "err"   the request raises (timeout, connection error, non-2xx status)
\*   "blank" 2xx with an empty (or whitespace-only, under 100 bytes) body
\*   "hdr"   2xx with the header line and no data row
\*   "rows"  2xx with the header line and DayRows(u) data rows
Responses == {"err", "blank", "hdr", "rows"}

\* what the Fetch Unit Client makes of a response:
\*   "raise" an exception leaves the function, "none" it returns None,
\*   "empty_df" it returns a table of 0 rows, "df" a table with rows
FetchDirect(resp) ==
    CASE resp = "err"   -> "raise"
      [] resp = "blank" -> "raise"      \* pd.read_csv of an empty body raises
      [] resp = "hdr"   -> "empty_df"
      [] resp = "rows"  -> "df"

FetchParallel(resp) ==
    CASE resp = "err"   -> "raise"
      [] resp = "blank" -> "none"       \* response.text.strip() is empty
      [] resp = "hdr"   -> "none"       \* len(df) > 0 fails
      [] resp = "rows"  -> "df"

Fetch2025(resp) ==
    CASE resp = "err"   -> "none"       \* except Exception: return None
      [] resp = "blank" -> "none"       \* len(response.content) > 100 fails
      [] resp = "hdr"   -> "empty_df"
      [] resp = "rows"  -> "df"

FetchLocal(resp) ==
    CASE resp = "err"   -> "raise"
      [] resp = "blank" -> "empty_df"
      [] resp = "hdr"   -> "empty_df"
      [] resp = "rows"  -> "df"

FetchResult(v, resp) ==
    CASE v = "parallel" -> FetchParallel(resp)
      [] v = "direct"   -> FetchDirect(resp)
      [] v = "local"    -> FetchLocal(resp)
      [] v \in AppendOnlyVariants -> Fetch2025(resp)


\* the pybaseball collector's month fetch can also return a table that fails
\* validation: "badrows" lacks a required field that validate_month_data
\* only tests (it returns False), "nocol" lacks a column validate_month_data
\* prints first (it raises KeyError)
LocalResponses == Responses \cup {"badrows", "nocol"}

\* rows of a whole month, as the pybaseball collector fetches it
MonthRows == SetRows(Units)

\* One iteration of a retry loop.  a is the value of `attempt` (0-based), mr
\* is max_retries, fr the Fetch Unit Client's outcome, rows the row count of
\* the table it returned.  The result says whether the loop is left (done),
\* the table returned (df: its rows, 0 for None), whether the unit ends as a
\* failure (error), whether time.sleep was called (slept) and whether an
\* exception leaves the loop uncaught (raised).
Iter(done, df, error, slept) ==
    [done |-> done, df |-> df, error |-> error, slept |-> slept, raised |-> FALSE]

\* a collect_day whose last attempt lets the exception go instead of
\* returning (date_str, None, error)
collect_day_reraise(a, mr, fr, rows) ==
    CASE fr = "df" -> Iter(TRUE, rows, FALSE, FALSE)
      [] fr \in {"none", "empty_df"} -> Iter(TRUE, 0, FALSE, FALSE)
      [] fr = "raise" ->
            IF a < mr - 1 THEN Iter(FALSE, 0, FALSE, TRUE)
            ELSE [Iter(FALSE, 0, FALSE, FALSE) EXCEPT !.raised = TRUE]

collect_day_parallel(a, mr, fr, rows) ==
    CASE fr = "df" -> Iter(TRUE, rows, FALSE, FALSE)
      [] fr \in {"none", "empty_df"} -> Iter(TRUE, 0, FALSE, FALSE)
      [] fr = "raise" ->
            IF a < mr - 1 THEN Iter(FALSE, 0, FALSE, TRUE)
            ELSE Iter(TRUE, 0, TRUE, FALSE)

collect_day_2025(a, mr, fr, rows) ==
    IF fr = "df" THEN Iter(TRUE, rows, FALSE, FALSE)
    ELSE IF a < mr THEN Iter(FALSE, 0, FALSE, TRUE)
    ELSE Iter(TRUE, 0, FALSE, FALSE)

collect_chunk_direct(a, mr, fr, rows) ==
    CASE fr = "df" -> Iter(TRUE, rows, FALSE, FALSE)
      [] fr \in {"none", "empty_df"} -> Iter(TRUE, 0, FALSE, FALSE)
      [] fr = "raise" ->
            IF a < mr - 1 THEN Iter(FALSE, 0, FALSE, TRUE)
            ELSE Iter(TRUE, 0, TRUE, FALSE)

RetryIter(v, a, mr, fr, rows) ==
    CASE v = "parallel" -> collect_day_parallel(a, mr, fr, rows)
      [] v = "direct"   -> collect_chunk_direct(a, mr, fr, rows)
      [] v \in AppendOnlyVariants -> collect_day_2025(a, mr, fr, rows)

\* the value returned when the loop body never ran or ran out:
\* (date_str, None, "Max retries exceeded") in the parallel collector, None
\* in the 2025 and 2020 collectors, nothing appended in the direct collector
FallThrough(v) ==
    IF v = "parallel" THEN Iter(TRUE, 0, TRUE, FALSE)
    ELSE Iter(TRUE, 0, FALSE, FALSE)

\* ------------------------------------------------------------------ state
VARIABLES
    variant,          \* which script runs
    max_retries,      \* the max_retries argument of the retry loop
    workers,          \* the max_workers argument of collect_month_parallel
    run,              \* which run of the script on this store: 1, then 2
    year,             \* range expansion: the year argument
    month,            \* range expansion: the month argument
    current,          \* range expansion: the loop cursor, a date << y, m, d >>
    dates,            \* range expansion: the daily units generated so far
    chunks,           \* range expansion: the weekly chunks generated so far
    waited,           \* fetch_with_retry: the seconds of each time.sleep call
    fres,             \* fetch_with_retry: how the call ended, [kind, of]
    store,            \* period key -> the stored generations, each [gen, n]
    loads,            \* load jobs committed so far (names the generations)
    pc,               \* where the main thread is
    existing,         \* planner: periods found above the threshold
    todo,             \* planner (direct): the worklist
    qi,               \* planner: index of the next candidate to query
    pos,              \* period loop: index of the current period
    cur,              \* the period being collected / loaded
    ustat,            \* unit -> "unused" | "queued" | "running" | "done" |
                      \*         "consumed" | "threw" (its wrapper raised)
    attempt,          \* unit -> iterations of its retry loop so far
    hist,             \* history: unit -> the responses its requests got
    ures,             \* unit -> the UnitResult of the retry wrapper
    sleeps,           \* unit -> calls of time.sleep in its retry loop
    all_data,         \* units whose table was appended, in append order
    errors,           \* units recorded in the period's error list
    completed,        \* results consumed by the scheduler
    combined,         \* rows of the combined table handed to the Loader
    uploaded,         \* value returned by collect_month / the Loader
    exc,              \* exception in flight: "none" | "exc" | "kbd"
    faults,           \* store calls that raised and faults, so far
    total_collected,
    successful,
    failed,
    store0,           \* history: the store when the current period began
    issued,           \* history: store operations issued for the current period
    queried,          \* history: the planner's count queries
    calls,            \* history: Loader calls of the Loader harness
    results           \* history: outcome of each finished Loader call

planVars == << existing, todo, qi, queried >>
expVars == << year, month, current, dates, chunks, waited, fres >>
cfgVars == << variant, max_retries, workers, run, year, month, current, dates,
             chunks, waited, fres >>
unitVars == << ustat, attempt, hist, ures, sleeps >>
schedVars == << all_data, errors, completed >>
mainVars == << total_collected, successful, failed >>
loaderHist == << calls, results >>
vars == << variant, max_retries, workers, run, year, month, current, dates,
           chunks, waited, fres, store, loads, pc, existing, todo, qi,
           pos, cur, ustat, attempt, hist, ures, sleeps, all_data, errors, completed, combined,
           uploaded, exc, faults, total_collected, successful, failed,
           store0, issued, queried, calls, results >>

NoResult == [df |-> 0, error |-> FALSE]

Count(p) == SumN(store[p])

\* the stores a run may find: every period holds one earlier generation
InitStores == [Periods -> {<< [gen |-> 0, n |-> c] >> : c \in InitCounts}]

UnitsOf(v) == IF v = "local" THEN {1} ELSE Units

FreshUnits(v) == [u \in Units |-> IF u \in UnitsOf(v) THEN "queued" ELSE "unused"]

\* the end of a fetch_with_retry call: kind is "none" (no call), "pending"
\* (in its loop), "json" (it returned the parsed body), "raised" (it let an
\* exception go) or "fell" (its loop ended and it returned None); `of` is the
\* attempt whose response or exception the caller gets
NoFetch == [kind |-> "none", of |-> 0]

\* no range expansion and no fetch_with_retry call is being looked at
NoExpansion ==
    /\ year = 0
    /\ month = 0
    /\ current = << 0, 0, 0 >>
    /\ dates = << >>
    /\ chunks = << >>
    /\ waited = << >>
    /\ fres = NoFetch

InitCommon ==
    /\ run = 1
    /\ loads = 0
    /\ existing = {}
    /\ todo = << >>
    /\ qi = 1
    /\ pos = 1
    /\ attempt = [u \in Units |-> 0]
    /\ hist = [u \in Units |-> << >>]
    /\ ures = [u \in Units |-> NoResult]
    /\ sleeps = [u \in Units |-> 0]
    /\ all_data = << >>
    /\ errors = << >>
    /\ completed = 0
    /\ uploaded = 0
    /\ exc = "none"
    /\ faults = 0
    /\ total_collected = 0
    /\ successful = 0
    /\ failed = << >>
    /\ store0 = store
    /\ issued = << >>
    /\ queried = << >>
    /\ results = << >>

\* main() has just started
Init ==
    /\ variant \in Variants
    /\ store \in InitStores
    /\ InitCommon
    /\ NoExpansion
    /\ max_retries = DefaultMaxRetries(variant)
    /\ workers = max_workers
    /\ pc = IF variant \in PlannerVariants THEN "plan" ELSE "loop"
    /\ cur = << 1, 1 >>
    /\ ustat = [u \in Units |-> "unused"]
    /\ combined = 0
    /\ calls = 0

\* a planner that takes a period without rows for one without games
PlannerSkipsEmpty(count) == count > Threshold \/ count = 0

\* a planner that skips a period at the threshold as well
PlannerSkipsAtLeast(count) == count >= Threshold

\* ---------------------------------------------------------------- planner
\* get_months_to_collect (direct) and the resume check of main (local):
\* one count query per candidate period
PlannerSkips(count) == count > Threshold

PlannerQuery ==
    /\ pc = "plan"
    /\ qi <= Len(CandidateSeq(variant))
    /\ LET p == CandidateSeq(variant)[qi] IN
         /\ existing' = IF PlannerSkips(Count(p)) THEN existing \cup {p} ELSE existing
         /\ queried' = Append(queried, p)
    /\ qi' = qi + 1
    /\ UNCHANGED << cfgVars, store, loads, pc, todo, pos, cur,
                    unitVars, schedVars, combined, uploaded, exc, faults,
                    mainVars, store0, issued, loaderHist >>

\* a worklist built by walking the candidates backwards
BuildTodoReversed(v, ex) ==
    LET cs == CandidateSeq(v)
        rev == [i \in 1..Len(cs) |-> cs[Len(cs) + 1 - i]]
    IN SelectSeq(rev, LAMBDA p : p \notin ex)

\* a count query of the planner raises: nothing catches the exception and
\* the script ends with a traceback, before its first period
PlannerRaises ==
    /\ pc = "plan"
    /\ calls = 0
    /\ qi <= Len(CandidateSeq(variant))
    /\ faults < MaxFaults
    /\ faults' = faults + 1
    /\ pc' = "crashed"
    /\ UNCHANGED << cfgVars, store, loads, planVars, pos, cur, unitVars,
                    schedVars, combined, uploaded, exc, mainVars, store0,
                    issued, loaderHist >>

\* the worklist: the candidates not found in `existing`, in candidate order
BuildTodo(v, ex) == SelectSeq(CandidateSeq(v), LAMBDA p : p \notin ex)

PlannerDone ==
    /\ pc = "plan"
    /\ qi > Len(CandidateSeq(variant))
    /\ todo' = IF variant = "direct" THEN BuildTodo(variant, existing) ELSE todo
    /\ pc' = "loop"
    /\ UNCHANGED << cfgVars, store, loads, existing, qi, queried,
                    pos, cur, unitVars, schedVars, combined, uploaded, exc,
                    faults, mainVars, store0, issued, loaderHist >>

\* -------------------------------------------------------------- main loop
\* the list the period loop walks
LoopList == IF variant = "direct" THEN todo ELSE CandidateSeq(variant)

\* `continue` of the pybaseball collector for a month found in existing_months
MainSkip ==
    /\ pc = "loop"
    /\ pos <= Len(LoopList)
    /\ variant = "local"
    /\ LoopList[pos] \in existing
    /\ pos' = pos + 1
    /\ UNCHANGED << cfgVars, store, loads, pc, planVars, cur, unitVars,
                    schedVars, combined, uploaded, exc, faults, mainVars,
                    store0, issued, loaderHist >>

\* main calls collect_month / collect_month_parallel for the next period
StartCollect ==
    /\ pc = "loop"
    /\ pos <= Len(LoopList)
    /\ ~(variant = "local" /\ LoopList[pos] \in existing)
    /\ cur' = LoopList[pos]
    /\ ustat' = FreshUnits(variant)
    /\ store0' = store
    /\ pc' = "fanout"
    /\ UNCHANGED << cfgVars, store, loads, planVars, pos, attempt, hist, ures,
                    sleeps, schedVars, combined, uploaded, exc, faults,
                    mainVars, issued, loaderHist >>

\* the loops are exhausted: main goes on to its summary
MainLoopEnd ==
    /\ pc = "loop"
    /\ pos > Len(LoopList)
    /\ pc' = "summary"
    /\ UNCHANGED << cfgVars, store, loads, planVars, pos, cur, unitVars,
                    schedVars, combined, uploaded, exc, faults, mainVars,
                    store0, issued, loaderHist >>

\* collect_month has returned or raised: its local variables are gone
DropLocals ==
    /\ ustat' = [u \in Units |-> "unused"]
    /\ attempt' = [u \in Units |-> 0]
    /\ hist' = [u \in Units |-> << >>]
    /\ ures' = [u \in Units |-> NoResult]
    /\ sleeps' = [u \in Units |-> 0]
    /\ all_data' = << >>
    /\ errors' = << >>
    /\ completed' = 0
    /\ combined' = 0
    /\ uploaded' = 0
    /\ issued' = << >>
    /\ store0' = store

\* a bookkeeping that leaves a period with count 0 out of the failed list
AccountNoFailed(v, count, tc, su, fl, p) ==
    [total |-> tc + count,
     successful |-> IF count > 0 THEN su + 1 ELSE su,
     failed |-> fl]

\* the bookkeeping of main after collect_month returned `count` for period p
Account(v, count, tc, su, fl, p) ==
    CASE v \in {"parallel", "direct", "local"} ->
            [total |-> tc + count,
             successful |-> IF count > 0 THEN su + 1 ELSE su,
             failed |-> IF count > 0 THEN fl ELSE Append(fl, p)]
      [] v = "y2025" ->
            [total |-> IF count > 0 THEN tc + count ELSE tc,
             successful |-> IF count > 0 THEN su + 1 ELSE su,
             failed |-> fl]
      [] v = "m2020" ->
            [total |-> tc + count, successful |-> su, failed |-> fl]

MainAccount ==
    /\ pc = "returned"
    /\ calls = 0
    /\ LET r == Account(variant, uploaded, total_collected, successful, failed, cur) IN
         /\ total_collected' = r.total
         /\ successful' = r.successful
         /\ failed' = r.failed
    /\ IF variant \in AppendOnlyVariants
       THEN pc' = "loop" /\ pos' = pos + 1
       ELSE pc' = "pause" /\ pos' = pos
    /\ DropLocals
    /\ UNCHANGED << cfgVars, store, loads, planVars, cur, exc, faults,
                    loaderHist >>

\* time.sleep between two periods is over
MainResume ==
    /\ pc = "pause"
    /\ pc' = "loop"
    /\ pos' = pos + 1
    /\ UNCHANGED << cfgVars, store, loads, planVars, cur, unitVars, schedVars,
                    combined, uploaded, exc, faults, mainVars, store0, issued,
                    loaderHist >>

\* index of the first period of the year after that of position k
NextYearStart(k) == (((k - 1) \div NumMonths) + 1) * NumMonths + 1

\* an `except Exception` clause that only prints, in every collector
ExceptFailedDropped(v, fl, p) == fl

\* `except Exception` of main: the period is recorded as failed (only
\* printed in the 2020 collector) and the loop goes on
ExceptFailed(v, fl, p) == IF v = "m2020" THEN fl ELSE Append(fl, p)

\* an `except Exception` clause of main that runs the failed period again
MainExceptRetry ==
    /\ pc = "raised"
    /\ calls = 0
    /\ exc = "exc"
    /\ variant # "local"
    /\ failed' = ExceptFailed(variant, failed, cur)
    /\ exc' = "none"
    /\ pc' = "loop"
    /\ pos' = pos
    /\ DropLocals
    /\ UNCHANGED << cfgVars, store, loads, planVars, cur, faults,
                    total_collected, successful, loaderHist >>

MainExceptException ==
    /\ pc = "raised"
    /\ calls = 0
    /\ exc = "exc"
    /\ variant # "local"
    /\ failed' = ExceptFailed(variant, failed, cur)
    /\ exc' = "none"
    /\ pc' = "loop"
    /\ pos' = pos + 1
    /\ DropLocals
    /\ UNCHANGED << cfgVars, store, loads, planVars, cur, faults,
                    total_collected, successful, loaderHist >>

\* where a KeyboardInterrupt leaves main, at loop position k: `break` of the
\* month loop (parallel: the year loop goes on with the next year), `break`
\* of the only loop (direct), sys.exit(0) (local); the 2025 and 2020
\* collectors do not catch it
AfterInterrupt(v, k) ==
    CASE v = "parallel" -> [pc |-> "loop", pos |-> NextYearStart(k)]
      [] v = "direct"   -> [pc |-> "summary", pos |-> k]
      [] v = "local"    -> [pc |-> "exited", pos |-> k]
      [] v \in AppendOnlyVariants -> [pc |-> "crashed", pos |-> k]

MainExceptInterrupt ==
    /\ pc = "raised"
    /\ calls = 0
    /\ exc = "kbd"
    /\ exc' = "none"
    /\ pc' = AfterInterrupt(variant, pos).pc
    /\ pos' = AfterInterrupt(variant, pos).pos
    /\ DropLocals
    /\ UNCHANGED << cfgVars, store, loads, planVars, cur, faults, mainVars,
                    loaderHist >>

\* the final report; its summary query only reads the store
Summary ==
    /\ pc = "summary"
    /\ pc' = "done"
    /\ UNCHANGED << cfgVars, store, loads, planVars, pos, cur, unitVars,
                    schedVars, combined, uploaded, exc, faults, mainVars,
                    store0, issued, loaderHist >>

\* ---------------------------------------------------- retry wrapper, pool
Running == {u \in Units : ustat[u] = "running"}

\* a pool that starts a thread for every submitted unit
WorkerStartUnbounded(u) ==
    /\ variant \in PoolVariants
    /\ pc \in {"fanout", "draining", "unit"}
    /\ ustat[u] = "queued"
    /\ \A w \in Units : w < u => ustat[w] # "queued"
    /\ ustat' = [ustat EXCEPT ![u] = "running"]
    /\ UNCHANGED << cfgVars, store, loads, pc, planVars, pos, cur, attempt,
                    hist, ures, sleeps, schedVars, combined, uploaded, exc,
                    faults, mainVars, store0, issued, loaderHist >>

\* a pool worker takes the next queued unit (the pool's queue is FIFO)
WorkerStart(u) ==
    /\ variant \in PoolVariants
    /\ pc \in {"fanout", "draining", "unit"}
    /\ ustat[u] = "queued"
    /\ \A w \in Units : w < u => ustat[w] # "queued"
    /\ Cardinality(Running) < workers
    /\ ustat' = [ustat EXCEPT ![u] = "running"]
    /\ UNCHANGED << cfgVars, store, loads, pc, planVars, pos, cur, attempt,
                    hist, ures, sleeps, schedVars, combined, uploaded, exc,
                    faults, mainVars, store0, issued, loaderHist >>

\* whether the retry loop of unit u has an iteration left
Fetched(u) == attempt[u] < LoopBound(variant, max_retries)

\* what one more pass through the retry loop does to unit u
StepOf(u, resp) ==
    IF Fetched(u)
    THEN RetryIter(variant, attempt[u], max_retries,
                   FetchResult(variant, resp), DayRows(u))
    ELSE FallThrough(variant)

\* the history of responses, kept where rec says so
Recorded(u, resp, rec) ==
    IF rec /\ Fetched(u) THEN [hist EXCEPT ![u] = Append(@, resp)] ELSE hist

\* collect_day in a pool worker: one iteration of its retry loop (the retry
\* sleep included)
CollectDayStep(u, rec) ==
    /\ variant \in PoolVariants
    /\ pc \in {"fanout", "draining", "unit"}
    /\ ustat[u] = "running"
    /\ \E resp \in Responses :
         LET it == StepOf(u, resp) IN
           /\ hist' = Recorded(u, resp, rec)
           /\ attempt' = IF Fetched(u) THEN [attempt EXCEPT ![u] = @ + 1] ELSE attempt
           /\ sleeps' = IF it.slept THEN [sleeps EXCEPT ![u] = @ + 1] ELSE sleeps
           /\ ustat' = IF it.raised THEN [ustat EXCEPT ![u] = "threw"]
                       ELSE IF it.done THEN [ustat EXCEPT ![u] = "done"] ELSE ustat
           /\ ures' = IF it.done
                      THEN [ures EXCEPT ![u] = [df |-> it.df, error |-> it.error]]
                      ELSE ures
    /\ UNCHANGED << cfgVars, store, loads, pc, planVars, pos, cur, schedVars,
                    combined, uploaded, exc, faults, mainVars, store0, issued,
                    loaderHist >>

\* an as_completed loop that gives up the period's tables at the first error
ConsumeParallelAbort(u, r, ad, er) ==
    IF r.error THEN [all_data |-> << >>, errors |-> Append(er, u)]
    ELSE IF r.df > 0 THEN [all_data |-> Append(ad, u), errors |-> er]
    ELSE [all_data |-> ad, errors |-> er]

\* the body of the as_completed loop for one result: what it appends
ConsumeParallel(u, r, ad, er) ==
    IF r.error THEN [all_data |-> ad, errors |-> Append(er, u)]
    ELSE IF r.df > 0 THEN [all_data |-> Append(ad, u), errors |-> er]
    ELSE [all_data |-> ad, errors |-> er]

Consume2025(u, r, ad, er) ==
    IF r.df > 0 THEN [all_data |-> Append(ad, u), errors |-> er]
    ELSE [all_data |-> ad, errors |-> er]

ConsumeResult(v, u, r, ad, er) ==
    IF v = "parallel" THEN ConsumeParallel(u, r, ad, er) ELSE Consume2025(u, r, ad, er)

\* the scheduler takes one finished unit, in completion order
Consume(u) ==
    /\ variant \in PoolVariants
    /\ pc = "fanout"
    /\ ustat[u] = "done"
    /\ LET c == ConsumeResult(variant, u, ures[u], all_data, errors) IN
         /\ all_data' = c.all_data
         /\ errors' = c.errors
    /\ completed' = completed + 1
    /\ ustat' = [ustat EXCEPT ![u] = "consumed"]
    /\ UNCHANGED << cfgVars, store, loads, pc, planVars, pos, cur, attempt,
                    hist, ures, sleeps, combined, uploaded, exc, faults,
                    mainVars, store0, issued, loaderHist >>

\* the chunk the direct collector's loop is at: the first not yet finished
CurrentChunk == CHOOSE u \in Units :
    /\ ustat[u] \in {"queued", "running"}
    /\ \A w \in Units : w < u => ustat[w] \notin {"queued", "running"}

\* the direct collector: one iteration of the retry loop of the current
\* chunk, run by the main thread; a table with rows is appended at once
ChunkStep(rec) ==
    /\ variant = "direct"
    /\ pc \in {"fanout", "unit"}
    /\ \E u \in Units : ustat[u] \in {"queued", "running"}
    /\ LET u == CurrentChunk IN
       \E resp \in Responses :
         LET it == StepOf(u, resp) IN
           /\ hist' = Recorded(u, resp, rec)
           /\ attempt' = IF Fetched(u) THEN [attempt EXCEPT ![u] = @ + 1] ELSE attempt
           /\ sleeps' = IF it.slept THEN [sleeps EXCEPT ![u] = @ + 1] ELSE sleeps
           /\ ustat' = [ustat EXCEPT ![u] = IF it.raised THEN "threw"
                                            ELSE IF it.done THEN "consumed" ELSE "running"]
           /\ ures' = IF it.done
                      THEN [ures EXCEPT ![u] = [df |-> it.df, error |-> it.error]]
                      ELSE ures
           /\ all_data' = IF it.done /\ it.df > 0 THEN Append(all_data, u) ELSE all_data
           /\ completed' = IF it.done THEN completed + 1 ELSE completed
    /\ UNCHANGED << cfgVars, store, loads, pc, planVars, pos, cur, errors,
                    combined, uploaded, exc, faults, mainVars, store0, issued,
                    loaderHist >>

\* a combine step that keeps the table appended last
ConcatLast(ad) == DayRows(ad[Len(ad)])

\* a combine step without the `if all_data:` guard
CombineUnguarded ==
    /\ variant # "local"
    /\ pc = "fanout"
    /\ \A u \in Units : ustat[u] \in {"consumed", "unused"}
    /\ combined' = SumRows(all_data)
    /\ pc' = "upload"
    /\ UNCHANGED << cfgVars, store, loads, planVars, pos, cur, unitVars,
                    schedVars, uploaded, exc, faults, mainVars, store0, issued,
                    loaderHist >>

\* a combine step that starts as soon as one result was consumed
CombineEarly ==
    /\ variant # "local"
    /\ pc = "fanout"
    /\ \E u \in Units : ustat[u] = "consumed"
    /\ IF all_data # << >>
       THEN /\ combined' = SumRows(all_data)
            /\ pc' = "upload"
            /\ uploaded' = uploaded
       ELSE /\ combined' = combined
            /\ pc' = "returned"
            /\ uploaded' = 0
    /\ UNCHANGED << cfgVars, store, loads, planVars, pos, cur, unitVars,
                    schedVars, exc, faults, mainVars, store0, issued,
                    loaderHist >>

\* pd.concat(all_data): the rows of the combined table
Concat(ad) == SumRows(ad)

\* after the pool (or the chunk loop): combine and upload, or report no data
Combine ==
    /\ variant # "local"
    /\ pc = "fanout"
    /\ \A u \in Units : ustat[u] \in {"consumed", "unused"}
    /\ IF all_data # << >>
       THEN /\ combined' = Concat(all_data)
            /\ pc' = "upload"
            /\ uploaded' = uploaded
       ELSE /\ combined' = combined
            /\ pc' = "returned"
            /\ uploaded' = 0
    /\ UNCHANGED << cfgVars, store, loads, planVars, pos, cur, unitVars,
                    schedVars, exc, faults, mainVars, store0, issued,
                    loaderHist >>

\* a pool that is left without waiting for its units (shutdown(wait=False))
DrainExitNoWait ==
    /\ pc = "draining"
    /\ pc' = "raised"
    /\ UNCHANGED << cfgVars, store, loads, planVars, pos, cur, unitVars,
                    schedVars, combined, uploaded, exc, faults, mainVars,
                    store0, issued, loaderHist >>

\* an interrupt reached the main thread inside the `with` block: leaving the
\* block waits for every submitted unit, then the interrupt goes on to main
DrainExit ==
    /\ pc = "draining"
    /\ \A u \in Units : ustat[u] \notin {"queued", "running"}
    /\ pc' = "raised"
    /\ UNCHANGED << cfgVars, store, loads, planVars, pos, cur, unitVars,
                    schedVars, combined, uploaded, exc, faults, mainVars,
                    store0, issued, loaderHist >>

\* ------------------------------------------- pybaseball collector (local)
\* how one pass of collect_month's retry loop ends, before any upload:
\*   "upload" the table is valid and goes to upload_to_bigquery,
\*   "zero" collect_month returns 0, "except" the except clause runs
LocalOutcome(resp) ==
    CASE resp = "rows" -> "upload"
      [] resp \in {"blank", "hdr"} -> "zero"     \* no data available
      [] resp = "badrows" -> "zero"              \* validation failed
      [] resp \in {"err", "nocol"} -> "except"

\* the except clause of collect_month at attempt a: wait and retry, or give up
LocalRetries(a, mr) == a < mr - 1

LocalAttempt(rec) ==
    /\ variant = "local"
    /\ pc = "fanout"
    /\ ustat[1] \in {"queued", "running"}
    /\ \E resp \in LocalResponses :
         LET a == attempt[1]
             o == IF Fetched(1) THEN LocalOutcome(resp) ELSE "zero"
             again == o = "except" /\ LocalRetries(a, max_retries)
         IN
           /\ hist' = Recorded(1, resp, rec)
           /\ attempt' = IF Fetched(1) THEN [attempt EXCEPT ![1] = @ + 1] ELSE attempt
           /\ sleeps' = IF again THEN [sleeps EXCEPT ![1] = @ + 1] ELSE sleeps
           /\ ustat' = [ustat EXCEPT ![1] =
                            IF o = "upload" \/ again THEN "running" ELSE "consumed"]
           /\ ures' = [ures EXCEPT ![1] =
                            [df |-> IF o = "upload" THEN MonthRows ELSE 0,
                             error |-> o = "except" /\ ~again]]
           /\ combined' = IF o = "upload" THEN MonthRows ELSE combined
           /\ pc' = IF o = "upload" THEN "upload"
                    ELSE IF again THEN "fanout" ELSE "returned"
           /\ uploaded' = IF o = "upload" \/ again THEN uploaded ELSE 0
    /\ UNCHANGED << cfgVars, store, loads, planVars, pos, cur, schedVars, exc,
                    faults, mainVars, store0, issued, loaderHist >>

\* an exception of upload_to_bigquery is caught by collect_month's own
\* except clause: the month is fetched again, or 0 is returned
LocalExcept ==
    /\ variant = "local"
    /\ pc = "raised"
    /\ calls = 0
    /\ exc = "exc"
    /\ exc' = "none"
    /\ LET again == LocalRetries(attempt[1] - 1, max_retries) IN
         /\ sleeps' = IF again THEN [sleeps EXCEPT ![1] = @ + 1] ELSE sleeps
         /\ ustat' = IF again THEN ustat ELSE [ustat EXCEPT ![1] = "consumed"]
         /\ ures' = IF again THEN ures ELSE [ures EXCEPT ![1] = [df |-> 0, error |-> TRUE]]
         /\ pc' = IF again THEN "fanout" ELSE "returned"
         /\ uploaded' = IF again THEN uploaded ELSE 0
    /\ UNCHANGED << cfgVars, store, loads, planVars, pos, cur, attempt, hist,
                    schedVars, combined, faults, mainVars, store0, issued,
                    loaderHist >>

\* ------------------------------------------------------------------ loader
\* a DELETE whose WHERE clause names the year only
DeleteYear(st, p) == [q \in Periods |-> IF q[1] = p[1] THEN << >> ELSE st[q]]

\* DELETE ... WHERE year = {year} AND EXTRACT(MONTH FROM game_date) = {month}
DeleteMonth(st, p) == [st EXCEPT ![p] = << >>]

\* load_table_from_dataframe with WRITE_APPEND: n rows tagged with period p
AppendRows(st, p, g, n) == [st EXCEPT ![p] = Append(@, [gen |-> g, n |-> n])]

\* SELECT COUNT(*) ... WHERE year = {year} AND month = {month} (the rows a
\* period held before were written with the same key columns)
VerifyCount(st, p) == SumN(st[p])

\* the store calls of one Loader run, in order: the 2025 and 2020 collectors
\* have no DELETE
LoaderSteps(v) ==
    IF v \in AppendOnlyVariants THEN << "insert", "verify" >>
    ELSE << "delete", "insert", "verify" >>

StepAfter(v, step) ==
    LET ls == LoaderSteps(v)
        i == CHOOSE k \in 1..Len(ls) : ls[k] = step
    IN IF i = Len(ls) THEN "returned" ELSE ls[i + 1]

\* the outcome of a finished Loader call, kept by the Loader harness (at: the
\* step the call ended in)
Outcome(ok, ret, st) ==
    IF calls > 0
    THEN Append(results, [ok |-> ok, ret |-> ret, count |-> SumN(st[cur]),
                          at |-> pc])
    ELSE results

\* a store call raises: the exception leaves the Loader
StoreRaises ==
    /\ faults < MaxFaults
    /\ faults' = faults + 1
    /\ pc' = "raised"
    /\ exc' = "exc"
    /\ results' = Outcome(FALSE, 0, store)

\* upload_month_data / upload_to_bigquery is entered: an empty table returns 0
UploadEnter ==
    /\ pc = "upload"
    /\ IF combined = 0
       THEN /\ pc' = "returned"
            /\ uploaded' = 0
            /\ results' = Outcome(TRUE, 0, store)
       ELSE /\ pc' = LoaderSteps(variant)[1]
            /\ uploaded' = uploaded
            /\ results' = results
    /\ UNCHANGED << cfgVars, store, loads, planVars, pos, cur, unitVars,
                    schedVars, combined, exc, faults, mainVars, store0,
                    issued, calls >>

LoaderDelete ==
    /\ pc = "delete"
    /\ issued' = Append(issued, "delete")
    /\ \/ /\ store' = DeleteMonth(store, cur)
          /\ pc' = StepAfter(variant, "delete")
          /\ UNCHANGED << exc, faults, results >>
       \/ /\ store' = store
          /\ StoreRaises
    /\ UNCHANGED << cfgVars, loads, planVars, pos, cur, unitVars, schedVars,
                    combined, uploaded, mainVars, store0, calls >>

LoaderInsert ==
    /\ pc = "insert"
    /\ issued' = Append(issued, "insert")
    /\ \/ /\ store' = AppendRows(store, cur, loads + 1, combined)
          /\ loads' = loads + 1
          /\ pc' = StepAfter(variant, "insert")
          /\ UNCHANGED << exc, faults, results >>
       \/ /\ store' = store
          /\ loads' = loads
          /\ StoreRaises
    /\ UNCHANGED << cfgVars, planVars, pos, cur, unitVars, schedVars,
                    combined, uploaded, mainVars, store0, calls >>

\* a verify step that clears the period when its count query runs
LoaderVerifyCleans ==
    /\ pc = "verify"
    /\ issued' = Append(issued, "verify")
    /\ store' = DeleteMonth(store, cur)
    /\ uploaded' = VerifyCount(store, cur)
    /\ pc' = StepAfter(variant, "verify")
    /\ results' = Outcome(TRUE, VerifyCount(store, cur), store)
    /\ UNCHANGED << cfgVars, loads, planVars, pos, cur, unitVars, schedVars,
                    combined, mainVars, store0, calls, exc, faults >>

LoaderVerify ==
    /\ pc = "verify"
    /\ issued' = Append(issued, "verify")
    /\ \/ /\ uploaded' = VerifyCount(store, cur)
          /\ pc' = StepAfter(variant, "verify")
          /\ results' = Outcome(TRUE, VerifyCount(store, cur), store)
          /\ UNCHANGED << exc, faults >>
       \/ /\ uploaded' = uploaded
          /\ StoreRaises
    /\ UNCHANGED << cfgVars, store, loads, planVars, pos, cur, unitVars,
                    schedVars, combined, mainVars, store0, calls >>

\* the script is started again on the store the first run left behind, a
\* period of which it left without rows: a new process, whose variables are
\* those of Init; the store and its load jobs stay
Restart ==
    /\ calls = 0
    /\ run = 1
    /\ pc \in {"done", "exited", "crashed"}
    /\ \E p \in Periods : store[p] = << >>
    /\ run' = 2
    /\ pc' = IF variant \in PlannerVariants THEN "plan" ELSE "loop"
    /\ existing' = {}
    /\ todo' = << >>
    /\ qi' = 1
    /\ queried' = << >>
    /\ pos' = 1
    /\ cur' = << 1, 1 >>
    /\ DropLocals
    /\ exc' = "none"
    /\ total_collected' = 0
    /\ successful' = 0
    /\ failed' = << >>
    /\ UNCHANGED << variant, max_retries, workers, expVars, store, loads,
                    faults, loaderHist >>

\* the Loader harness calls the Loader again with the same table and period
LoaderAgain ==
    /\ calls > 0
    /\ calls < MaxLoaderCalls
    /\ pc \in {"returned", "raised"}
    /\ calls' = calls + 1
    /\ pc' = "upload"
    /\ exc' = "none"
    /\ issued' = << >>
    /\ store0' = store
    /\ UNCHANGED << cfgVars, store, loads, planVars, pos, cur, unitVars,
                    schedVars, combined, uploaded, faults, mainVars, results >>

\* ----------------------------------------------------------------- Ctrl-C
\* a KeyboardInterrupt is raised in the main thread where it is waiting
Interrupt ==
    /\ calls = 0
    /\ faults < MaxFaults
    /\ pc \in {"plan", "fanout", "delete", "insert", "verify", "pause"}
    /\ faults' = faults + 1
    /\ IF pc = "plan" THEN pc' = "crashed" /\ exc' = exc
       ELSE IF pc = "fanout" /\ variant \in PoolVariants
            THEN pc' = "draining" /\ exc' = "kbd"
            ELSE pc' = "raised" /\ exc' = "kbd"
    /\ UNCHANGED << cfgVars, store, loads, planVars, pos, cur, unitVars,
                    schedVars, combined, uploaded, mainVars, store0, issued,
                    loaderHist >>

\* ---------------------------------------------------------- specifications
Next ==
    \/ PlannerQuery
    \/ PlannerRaises
    \/ PlannerDone
    \/ MainSkip
    \/ StartCollect
    \/ MainLoopEnd
    \/ \E u \in Units : WorkerStart(u)
    \/ \E u \in Units : CollectDayStep(u, FALSE)
    \/ \E u \in Units : Consume(u)
    \/ ChunkStep(FALSE)
    \/ LocalAttempt(FALSE)
    \/ LocalExcept
    \/ Combine
    \/ DrainExit
    \/ UploadEnter
    \/ LoaderDelete
    \/ LoaderInsert
    \/ LoaderVerify
    \/ Interrupt
    \/ MainAccount
    \/ MainResume
    \/ MainExceptException
    \/ MainExceptInterrupt
    \/ Summary

\* a whole run of one collector script
Spec == Init /\ [][Next]_vars

\* The Loader alone: upload_month_data / upload_to_bigquery is called with a
\* table of `combined` rows for period `cur`, against any store, and then
\* called again with the same arguments.
BatchSizes == {0, DayRows(1), MonthRows}

InitLoader ==
    /\ variant \in Variants
    /\ store \in InitStores
    /\ InitCommon
    /\ NoExpansion
    /\ max_retries = DefaultMaxRetries(variant)
    /\ workers = max_workers
    /\ pc = "upload"
    /\ cur \in Periods
    /\ ustat = [u \in Units |-> "unused"]
    /\ combined \in BatchSizes
    /\ calls = 1

NextLoader ==
    \/ UploadEnter
    \/ LoaderDelete
    \/ LoaderInsert
    \/ LoaderVerify
    \/ LoaderAgain

SpecLoader == InitLoader /\ [][NextLoader]_vars

\* The collection of one period alone (collect_month_parallel and the chunk
\* loop of collect_month, up to the call of the Loader), with the responses
\* of the data source recorded in hist.
QuietStore == [p \in Periods |-> << [gen |-> 0, n |-> Threshold] >>]

InitCollect ==
    /\ variant \in Variants \ {"local"}
    /\ store = QuietStore
    /\ InitCommon
    /\ NoExpansion
    /\ max_retries = DefaultMaxRetries(variant)
    /\ workers \in 1..max_workers
    /\ pc = "fanout"
    /\ cur = << 1, 1 >>
    /\ ustat = FreshUnits(variant)
    /\ combined = 0
    /\ calls = 0

NextCollect ==
    \/ \E u \in Units : WorkerStart(u)
    \/ \E u \in Units : CollectDayStep(u, TRUE)
    \/ \E u \in Units : Consume(u)
    \/ ChunkStep(TRUE)
    \/ Combine

SpecCollect == InitCollect /\ [][NextCollect]_vars

\* The retry wrapper alone: one unit, any max_retries argument.
InitRetry ==
    /\ variant \in Variants \ {"local"}
    /\ store = QuietStore
    /\ InitCommon
    /\ NoExpansion
    /\ max_retries \in 0..MaxRetriesArg
    /\ workers = max_workers
    /\ pc = "unit"
    /\ cur = << 1, 1 >>
    /\ ustat = [u \in Units |-> IF u = 1 THEN "queued" ELSE "unused"]
    /\ combined = 0
    /\ calls = 0

NextRetry ==
    \/ WorkerStart(1)
    \/ CollectDayStep(1, TRUE)
    \/ ChunkStep(TRUE)

SpecRetry == InitRetry /\ [][NextRetry]_vars

\* The planner alone, against stores around the threshold.
\* -------------------------------------------------------- range expansion
\* the years the expansion is tried with: a common year and a leap year
DateYears == {2023, 2024}
MonthNumbers == 1..12

\* the calendar of datetime: a date is << year, month, day >>
IsLeap(y) == y % 4 = 0 /\ (y % 100 # 0 \/ y % 400 = 0)

DaysInMonth(y, m) ==
    IF m = 2 THEN (IF IsLeap(y) THEN 29 ELSE 28)
    ELSE IF m \in {4, 6, 9, 11} THEN 30 ELSE 31

\* date + timedelta(days=1)
NextDay(d) ==
    IF d[3] < DaysInMonth(d[1], d[2]) THEN << d[1], d[2], d[3] + 1 >>
    ELSE IF d[2] < 12 THEN << d[1], d[2] + 1, 1 >>
    ELSE << d[1] + 1, 1, 1 >>

\* date - timedelta(days=1)
PrevDay(d) ==
    IF d[3] > 1 THEN << d[1], d[2], d[3] - 1 >>
    ELSE IF d[2] > 1 THEN << d[1], d[2] - 1, DaysInMonth(d[1], d[2] - 1) >>
    ELSE << d[1] - 1, 12, 31 >>

\* date + timedelta(days=n)
RECURSIVE AddDays(_, _)
AddDays(d, n) == IF n = 0 THEN d ELSE AddDays(NextDay(d), n - 1)

\* date.replace(day=1)
FirstOfMonth(d) == << d[1], d[2], 1 >>

\* the order of datetime values (and of their "%Y-%m-%d" strings)
DateLE(a, b) ==
    \/ a[1] < b[1]
    \/ a[1] = b[1] /\ a[2] < b[2]
    \/ a[1] = b[1] /\ a[2] = b[2] /\ a[3] <= b[3]

MinDate(a, b) == IF DateLE(a, b) THEN a ELSE b

\* start / start_day: March begins on the 20th
StartDate(y, m) == IF m = 3 THEN << y, 3, 20 >> ELSE << y, m, 1 >>

\* end of the parallel and direct collectors: datetime arithmetic
EndDateCalendar(y, m) ==
    IF m = 10 THEN << y, 10, 31 >>
    ELSE PrevDay(FirstOfMonth(AddDays(<< y, m, 1 >>, 32)))

\* end_day of the 2025 collector: a table of month lengths
EndDay2025(m) ==
    IF m = 12 THEN 31
    ELSE IF m \in {4, 6, 9} THEN 30
    ELSE IF m = 2 THEN 28
    ELSE 31

\* end_day of the 2020 collector
EndDay2020(m) == IF m \in {4, 6} THEN 30 ELSE 31

EndDate(v, y, m) ==
    CASE v \in {"parallel", "direct"} -> EndDateCalendar(y, m)
      [] v = "y2025" -> << y, m, EndDay2025(m) >>
      [] v = "m2020" -> << y, m, EndDay2020(m) >>

\* the next value of the loop cursor: current += timedelta(days=1) in the
\* parallel collector, the next day number of range() in the 2025 and 2020
\* collectors (the date string is formatted from the number as it is)
AdvanceDay(v, d) ==
    IF v = "parallel" THEN NextDay(d) ELSE << d[1], d[2], d[3] + 1 >>

\* one pass of the loop that generates the daily units of a period
ExpandStep ==
    /\ pc = "expand"
    /\ variant \in PoolVariants
    /\ IF DateLE(current, EndDate(variant, year, month))
       THEN /\ dates' = Append(dates, current)
            /\ current' = AdvanceDay(variant, current)
            /\ pc' = pc
       ELSE /\ pc' = "expanded"
            /\ UNCHANGED << dates, current >>
    /\ UNCHANGED << variant, max_retries, workers, run, year, month, chunks,
                    waited, fres, store, loads, planVars, pos, cur, unitVars,
                    schedVars, combined, uploaded, exc, faults, mainVars,
                    store0, issued, loaderHist >>

\* a chunk end that is not cut at the end of the window
ChunkEndUncut(c, e) == AddDays(c, 6)

\* chunk_end = min(current + timedelta(days=6), end)
ChunkEnd(c, e) == MinDate(AddDays(c, 6), e)

\* one pass of the loop that generates the weekly chunks of a period (direct)
ChunkExpandStep ==
    /\ pc = "expand"
    /\ variant = "direct"
    /\ IF DateLE(current, EndDate(variant, year, month))
       THEN LET chunk_end == ChunkEnd(current, EndDate(variant, year, month)) IN
              /\ chunks' = Append(chunks, << current, chunk_end >>)
              /\ current' = NextDay(chunk_end)
              /\ pc' = pc
       ELSE /\ pc' = "expanded"
            /\ UNCHANGED << chunks, current >>
    /\ UNCHANGED << variant, max_retries, workers, run, year, month, dates,
                    waited, fres, store, loads, planVars, pos, cur, unitVars,
                    schedVars, combined, uploaded, exc, faults, mainVars,
                    store0, issued, loaderHist >>

\* collect_month / collect_month_parallel is entered with a year and a month
InitExpand ==
    /\ variant \in PoolVariants \cup {"direct"}
    /\ store = QuietStore
    /\ InitCommon
    /\ max_retries = DefaultMaxRetries(variant)
    /\ workers = max_workers
    /\ pc = "expand"
    /\ cur = << 1, 1 >>
    /\ ustat = [u \in Units |-> "unused"]
    /\ combined = 0
    /\ calls = 0
    /\ year \in DateYears
    /\ month \in MonthNumbers
    /\ current = StartDate(year, month)
    /\ dates = << >>
    /\ chunks = << >>
    /\ waited = << >>
    /\ fres = NoFetch

NextExpand ==
    \/ ExpandStep
    \/ ChunkExpandStep

SpecExpand == InitExpand /\ [][NextExpand]_vars

\* ------------------------------- historical collector: fetch_with_retry
\* what a request can meet: requests.get raises (timeout, connection),
\* raise_for_status raises (non-2xx), response.json() raises (malformed
\* body), or the parsed body is returned
FetchResponses == {"timeout", "http", "badjson", "ok"}

\* the teams get_team_rosters walks
NumTeams == NumUnits

\* a fetch_with_retry whose last attempt swallows the exception
fetch_with_retry_swallow(a, mr, resp) ==
    IF resp = "ok" THEN [kind |-> "json", slept |-> FALSE]
    ELSE IF a < mr - 1 THEN [kind |-> "pending", slept |-> TRUE]
    ELSE [kind |-> "fell", slept |-> FALSE]

\* one pass of the loop of fetch_with_retry at attempt a (0-based)
fetch_with_retry(a, mr, resp) ==
    IF resp = "ok" THEN [kind |-> "json", slept |-> FALSE]
    ELSE IF a < mr - 1 THEN [kind |-> "pending", slept |-> TRUE]
    ELSE [kind |-> "raised", slept |-> FALSE]

\* time.sleep(2 ** attempt)
Backoff(a) == 2 ^ a

\* get_team_rosters calls fetch_with_retry for the next team
RosterCall ==
    /\ pc = "teams"
    /\ pos <= NumTeams
    /\ pc' = "fetch"
    /\ attempt' = [attempt EXCEPT ![1] = 0]
    /\ hist' = [hist EXCEPT ![1] = << >>]
    /\ waited' = << >>
    /\ fres' = [kind |-> "pending", of |-> 0]
    /\ UNCHANGED << variant, max_retries, workers, run, year, month, current,
                    dates, chunks, store, loads, planVars, pos, cur, ustat,
                    ures, sleeps, schedVars, combined, uploaded, exc, faults,
                    mainVars, store0, issued, loaderHist >>

\* one pass of `for attempt in range(max_retries)`, or its end
FetchWithRetryStep ==
    /\ pc = "fetch"
    /\ IF attempt[1] >= max_retries
       THEN /\ fres' = [kind |-> "fell", of |-> 0]
            /\ pc' = "fetched"
            /\ UNCHANGED << attempt, hist, waited >>
       ELSE \E resp \in FetchResponses :
              LET it == fetch_with_retry(attempt[1], max_retries, resp) IN
                /\ hist' = [hist EXCEPT ![1] = Append(@, resp)]
                /\ attempt' = [attempt EXCEPT ![1] = @ + 1]
                /\ waited' = IF it.slept THEN Append(waited, Backoff(attempt[1]))
                             ELSE waited
                /\ fres' = [kind |-> it.kind,
                            of |-> IF it.kind = "pending" THEN 0 ELSE attempt[1] + 1]
                /\ pc' = IF it.kind = "pending" THEN "fetch" ELSE "fetched"
    /\ UNCHANGED << variant, max_retries, workers, run, year, month, current,
                    dates, chunks, store, loads, planVars, pos, cur, ustat,
                    ures, sleeps, schedVars, combined, uploaded, exc, faults,
                    mainVars, store0, issued, loaderHist >>

\* get_team_rosters gets the roster or catches the exception (a None result
\* raises AttributeError at roster_data.get) and goes on to the next team
RosterResult ==
    /\ pc = "fetched"
    /\ all_data' = IF fres.kind = "json" THEN Append(all_data, pos) ELSE all_data
    /\ pos' = pos + 1
    /\ pc' = "teams"
    /\ UNCHANGED << cfgVars, store, loads, planVars, cur, unitVars, errors,
                    completed, combined, uploaded, exc, faults, mainVars,
                    store0, issued, loaderHist >>

\* return all_roster_data
RosterDone ==
    /\ pc = "teams"
    /\ pos > NumTeams
    /\ pc' = "rostered"
    /\ UNCHANGED << cfgVars, store, loads, planVars, pos, cur, unitVars,
                    schedVars, combined, uploaded, exc, faults, mainVars,
                    store0, issued, loaderHist >>

\* get_team_rosters of the historical collector, fetch_with_retry tried with
\* every max_retries from 0 on
InitRosters ==
    /\ variant = "historical"
    /\ store = QuietStore
    /\ InitCommon
    /\ NoExpansion
    /\ max_retries \in 0..MaxRetriesArg
    /\ workers = max_workers
    /\ pc = "teams"
    /\ cur = << 1, 1 >>
    /\ ustat = [u \in Units |-> "unused"]
    /\ combined = 0
    /\ calls = 0

NextRosters ==
    \/ RosterCall
    \/ FetchWithRetryStep
    \/ RosterResult
    \/ RosterDone

SpecRosters == InitRosters /\ [][NextRosters]_vars

\* collect_month of the pybaseball collector for one month, the responses of
\* its fetches recorded in hist[1]
InitLocal ==
    /\ variant = "local"
    /\ store \in InitStores
    /\ InitCommon
    /\ NoExpansion
    /\ max_retries = DefaultMaxRetries(variant)
    /\ workers = max_workers
    /\ pc = "fanout"
    /\ cur = << 1, 1 >>
    /\ ustat = FreshUnits(variant)
    /\ combined = 0
    /\ calls = 0

NextLocal ==
    \/ LocalAttempt(TRUE)
    \/ LocalExcept
    \/ UploadEnter
    \/ LoaderDelete
    \/ LoaderInsert
    \/ LoaderVerify

SpecLocal == InitLocal /\ [][NextLocal]_vars

\* a whole run that no KeyboardInterrupt cuts short, in which every step
\* that can be taken is taken in the end: every request and every store call
\* returns or raises, every worker of the pool gets to run
NextLive ==
    \/ PlannerQuery
    \/ PlannerRaises
    \/ PlannerDone
    \/ MainSkip
    \/ StartCollect
    \/ MainLoopEnd
    \/ \E u \in Units : WorkerStart(u)
    \/ \E u \in Units : CollectDayStep(u, FALSE)
    \/ \E u \in Units : Consume(u)
    \/ ChunkStep(FALSE)
    \/ LocalAttempt(FALSE)
    \/ LocalExcept
    \/ Combine
    \/ UploadEnter
    \/ LoaderDelete
    \/ LoaderInsert
    \/ LoaderVerify
    \/ MainAccount
    \/ MainResume
    \/ MainExceptException
    \/ Summary

SpecLive == Init /\ [][NextLive]_vars /\ WF_vars(NextLive)

\* two runs of a collector that has a Planner, the second started when the
\* first has stopped
ResumeStores ==
    {s \in InitStores : \A p \in Periods : p[1] = 1 => SumN(s[p]) > Threshold}

\* the first run starts on a store whose first year is complete
InitResume ==
    /\ Init
    /\ variant \in PlannerVariants
    /\ store \in ResumeStores

NextResume ==
    \/ PlannerQuery
    \/ PlannerRaises
    \/ PlannerDone
    \/ MainSkip
    \/ StartCollect
    \/ MainLoopEnd
    \/ ChunkStep(FALSE)
    \/ LocalAttempt(FALSE)
    \/ LocalExcept
    \/ Combine
    \/ UploadEnter
    \/ LoaderDelete
    \/ LoaderInsert
    \/ LoaderVerify
    \/ Interrupt
    \/ MainAccount
    \/ MainResume
    \/ MainExceptException
    \/ MainExceptInterrupt
    \/ Summary
    \/ Restart

SpecResume == InitResume /\ [][NextResume]_vars

PlannerStores == [Periods -> {<< [gen |-> 0, n |-> c] >> : c \in PlannerCounts}]

InitPlanner ==
    /\ variant \in PlannerVariants
    /\ store \in PlannerStores
    /\ InitCommon
    /\ NoExpansion
    /\ max_retries = DefaultMaxRetries(variant)
    /\ workers = max_workers
    /\ pc = "plan"
    /\ cur = << 1, 1 >>
    /\ ustat = [u \in Units |-> "unused"]
    /\ combined = 0
    /\ calls = 0

NextPlanner ==
    \/ PlannerQuery
    \/ PlannerDone

SpecPlanner == InitPlanner /\ [][NextPlanner]_vars

\* --------------------------------------------------------------- properties
\* the unit's retry wrapper has returned
Terminal(u) == ustat[u] \in {"done", "consumed"}

\* the units whose wrapper returned a table with rows
Succeeded == {u \in Units : Terminal(u) /\ ures[u].df > 0}

\* every request of the unit raised
AllErr(u) == hist[u] # << >> /\ \A i \in 1..Len(hist[u]) : hist[u][i] = "err"

\* the unit used up its retry loop on requests that raised
FailedAll(u) ==
    Terminal(u) /\ AllErr(u) /\ Len(hist[u]) = LoopBound(variant, max_retries)

\* the first two requests of the unit raised
StartsTwoErr(u) == Len(hist[u]) >= 2 /\ hist[u][1] = "err" /\ hist[u][2] = "err"

\* the periods the run will collect, once the planner is done
PlanSet ==
    IF variant = "direct" THEN SeqSet(todo)
    ELSE SeqSet(CandidateSeq(variant)) \ existing

\* the attempt got a 2xx response the client did not reject: rows (Success)
\* or no rows (Empty)
EndsTerminal(v, resp) ==
    \/ resp = "rows"
    \/ resp \in {"blank", "hdr"} /\ FetchResult(v, resp) # "raise"

\* C1: after a Loader run that returns (no store call raised), the stored
\* row count of the period equals the row count of the table just loaded,
\* whatever the period held before.
C1_LoadReplacesPeriod ==
    (pc = "returned" /\ combined > 0) => VerifyCount(store, cur) = combined

\* C2: two successive Loader runs on the same period with the same table
\* end with the same stored row count for the period as the first run did.
C2_LoaderIdempotent ==
    \A i \in 1..Len(results) : \A j \in 1..Len(results) :
        (results[i].ok /\ results[j].ok) => results[i].count = results[j].count

\* C3 (as stated): once the planner is done, a candidate period is left out
\* of the plan exactly when its stored row count is at or above the
\* threshold.
C3_AtThresholdExcluded ==
    pc = "loop" =>
        \A p \in SeqSet(CandidateSeq(variant)) :
            (Count(p) >= Threshold) <=> (p \notin PlanSet)

\* C3 (amended): once the planner is done, a candidate period is left out of
\* the plan exactly when its stored row count is strictly above the
\* threshold; a period holding exactly the threshold is collected again.
C3_AboveThresholdExcluded ==
    pc = "loop" =>
        \A p \in SeqSet(CandidateSeq(variant)) :
            (Count(p) > Threshold) <=> (p \notin PlanSet)

C3_Witness ==
    /\ pc = "loop"
    /\ \E p \in PlanSet : Count(p) = Threshold
    /\ \E p \in PlanSet : Count(p) < Threshold
    /\ \E q \in SeqSet(CandidateSeq(variant)) \ PlanSet : Count(q) > Threshold

\* C4: once the units of a period are all consumed, and one of them failed
\* every attempt of its retry loop, every unit that returned rows is in
\* all_data, and the period goes on to the Loader with a combined table that
\* holds its rows.
C4_FaultIsolation ==
    (pc \in {"upload", "returned"} /\ \E f \in Units : FailedAll(f)) =>
        \A w \in Succeeded :
            /\ w \in SeqSet(all_data)
            /\ pc = "upload"
            /\ combined >= DayRows(w)

C4_Witness ==
    /\ pc = "upload"
    /\ \E f \in Units : FailedAll(f) /\ f \notin SeqSet(all_data)
    /\ \E w \in Succeeded : w \in SeqSet(all_data) /\ combined = DayRows(w)

\* C5: in the collectors that split a period into units, a period none of
\* whose units returned rows ends with an empty combined table, no store
\* call issued and the store as it was when the period began; and the Loader
\* is never entered with an empty table.
C5_EmptyPeriodNoMutation ==
    /\ (variant # "local" /\ pc = "returned" /\ Succeeded = {}) =>
           (combined = 0 /\ uploaded = 0 /\ issued = << >> /\ store = store0)
    /\ (pc \in {"upload", "delete", "insert", "verify"}) => (combined > 0)

C5_Witness ==
    /\ variant # "local"
    /\ pc = "returned"
    /\ completed = NumUnits
    /\ Succeeded = {}
    /\ issued = << >>
    /\ Count(cur) > 0
    /\ store = store0

\* C6: when a period's combined table is handed to the Loader, its row count
\* is the sum of the rows of the units that returned rows, each counted
\* once, in whatever order the pool finished them.
C6_ConcatSum ==
    pc = "upload" =>
        /\ combined = SetRows(Succeeded)
        /\ SeqSet(all_data) = Succeeded
        /\ Len(all_data) = Cardinality(Succeeded)

C6_Witness ==
    /\ pc = "upload"
    /\ variant \in PoolVariants
    /\ Len(all_data) = NumUnits
    /\ all_data[1] > all_data[2]
    /\ combined = SetRows(Units)

\* C7 (as stated): with the default max_retries, a unit whose first two
\* requests raised is given a third request, and if that one returns rows
\* the unit returns them.
C7_ThirdAttemptDefault ==
    \A u \in Units :
        (Terminal(u) /\ StartsTwoErr(u)) =>
            /\ Len(hist[u]) >= 3
            /\ hist[u][3] = "rows" => ures[u].df = DayRows(u)

\* C7 (amended): with the default max_retries, a unit whose first two
\* requests raised is given a third request in the direct, 2025 and 2020
\* collectors, and if that one returns rows they are part of the period's
\* tables; in the parallel collector (two attempts) the unit ends as an
\* error after the second request.
C7_ThirdAttemptWhereAllowed ==
    \A u \in Units :
        (Terminal(u) /\ StartsTwoErr(u)) =>
            IF variant = "parallel"
            THEN Len(hist[u]) = 2 /\ ures[u].df = 0 /\ ures[u].error
            ELSE /\ Len(hist[u]) = 3
                 /\ hist[u][3] = "rows" =>
                      /\ ures[u].df = DayRows(u)
                      /\ ~ures[u].error
                      /\ ustat[u] = "consumed" => u \in SeqSet(all_data)

C7_Witness ==
    /\ pc = "upload"
    /\ \E u \in Units :
         /\ hist[u] = << "err", "err", "rows" >>
         /\ u \in SeqSet(all_data)
         /\ combined >= DayRows(u)

\* C8: a request that ends in Success or Empty is the unit's last: the
\* wrapper has returned, no later request was made, and it slept only after
\* the requests before it.
C8_SuccessEmptyTerminal ==
    \A u \in Units : \A i \in 1..Len(hist[u]) :
        EndsTerminal(variant, hist[u][i]) =>
            /\ i = Len(hist[u])
            /\ Terminal(u)
            /\ sleeps[u] = i - 1

\* C9: for every max_retries and every sequence of responses, no exception
\* leaves the retry wrapper: it returns rows, nothing, or an error, and
\* after a loop of requests that all raised it has returned without rows.
C9_WrapperNeverThrows ==
    \A u \in Units :
        /\ ustat[u] # "threw"
        /\ Terminal(u) =>
              (ures[u].df \in {0, DayRows(u)} /\ ~(ures[u].df > 0 /\ ures[u].error))
        /\ (AllErr(u) /\ Len(hist[u]) = LoopBound(variant, max_retries)) =>
              (Terminal(u) /\ ures[u].df = 0)

C9_Witness ==
    \E u \in Units :
        /\ variant = "parallel"
        /\ max_retries = MaxRetriesArg
        /\ AllErr(u)
        /\ Len(hist[u]) = MaxRetriesArg
        /\ ustat[u] = "done"
        /\ ures[u].error

\* C10: during and after a Loader run for a period, whether it returns or a
\* store call of it raises, every other period holds the rows it held when
\* the run began.
C10_ScopedDelete ==
    \A q \in Periods \ {cur} : store[q] = store0[q]

C10_Witness ==
    /\ pc = "raised"
    /\ issued = << "delete", "insert" >>
    /\ store[cur] = << >>
    /\ \E q \in Periods \ {cur} : q[1] = cur[1] /\ store[q] # << >>

\* C11: whenever no Loader run stands between its Delete and its Insert,
\* every period holds the rows of at most one load.
C11_OneGeneration ==
    (pc # "insert") => \A p \in Periods : Len(store[p]) <= 1

\* C12: when a Loader run for a period raised at Delete or at Insert and the
\* Loader is run again for it with the same table and returns, the period
\* holds exactly the rows of the table and every other period is unchanged.
C12_RerunAfterFailure ==
    ( /\ Len(results) = 2
      /\ ~results[1].ok
      /\ results[1].at \in {"delete", "insert"}
      /\ results[2].ok
      /\ combined > 0 ) =>
        /\ results[2].count = combined
        /\ Count(cur) = combined
        /\ \A q \in Periods \ {cur} : store[q] = store0[q]

\* C13 (as stated): when a store call of the Loader raises and the exception
\* reaches main, the period is appended to the failed list and main goes on
\* with the next period.
C13_LoadFailureListed ==
    [][ (pc = "raised" /\ exc = "exc" /\ variant # "local") =>
            /\ failed' = Append(failed, cur)
            /\ pc' = "loop"
            /\ pos' = pos + 1 ]_vars

\* C13 (amended): when a store call of the Loader raises, the run is not
\* aborted.  In the parallel, direct and 2025 collectors main appends the
\* period to the failed list and goes on with the next period; the 2020
\* collector goes on without listing it; the pybaseball collector fetches
\* and loads the month again or, out of attempts, returns 0, and a month
\* that returned 0 is appended to the failed list.
C13_LoadFailureNotAborting ==
    [][ /\ (pc = "raised" /\ exc = "exc" /\ variant # "local") =>
              /\ failed' = IF variant = "m2020" THEN failed ELSE Append(failed, cur)
              /\ pc' = "loop"
              /\ pos' = pos + 1
        /\ (pc = "raised" /\ exc = "exc" /\ variant = "local") =>
              /\ failed' = failed
              /\ pos' = pos
              /\ \/ pc' = "fanout"
                 \/ pc' = "returned" /\ uploaded' = 0
        /\ (pc = "returned" /\ variant = "local" /\ uploaded = 0) =>
              failed' = Append(failed, cur) ]_vars

\* the period whose Insert raised after its Delete is listed, and the next
\* period is being collected
C13_Witness ==
    /\ variant \in {"parallel", "direct"}
    /\ pc = "fanout"
    /\ exc = "none"
    /\ \E p \in Periods : failed = << p >> /\ store[p] = << >> /\ cur # p

\* C14: once a store call of the Loader has raised, the exception halts the
\* run: main does not take it as handled and return to the period loop with
\* periods left to fetch and load.
C14_StoreErrorHalts ==
    [][ (pc = "raised" /\ exc = "exc") =>
            ~(pc' = "loop" /\ pos' <= Len(LoopList)) ]_vars

\* C15: once main has caught a KeyboardInterrupt, the period loop does not
\* go on: no period of the current or of a later year is left to start.
C15_InterruptHalts ==
    [][ (pc = "raised" /\ exc = "kbd") =>
            ~(pc' = "loop" /\ pos' <= Len(LoopList)) ]_vars

\* C16: a KeyboardInterrupt never leaves the Loader with the period's Delete
\* applied and its Insert not attempted.
C16_InterruptKeepsLoaderWhole ==
    (pc = "raised" /\ exc = "kbd") =>
        ~(issued = << "delete" >> /\ store[cur] = << >>)

\* C17: periods are processed one after the other: while the Loader runs,
\* and from its end until the next period's units are submitted, no unit is
\* queued or running in the worker pool, and between two periods no unit and
\* no store call of a period is left over.
C17_PeriodsSequential ==
    /\ (variant \in PoolVariants /\ pc \notin {"fanout", "draining"}) =>
           \A u \in Units : ustat[u] \notin {"queued", "running"}
    /\ (pc \in {"loop", "pause", "summary", "done"}) =>
           (issued = << >> /\ \A u \in Units : ustat[u] = "unused")

\* the second period's units are running after the first period was loaded
C17_Witness ==
    /\ variant \in PoolVariants
    /\ pc = "fanout"
    /\ pos = 2
    /\ \E u \in Units : ustat[u] = "running"
    /\ \E i \in 1..Len(store[LoopList[1]]) : store[LoopList[1]][i].gen >= 1

\* every unit of the period was consumed and returned no rows and no error
AllUnitsEmpty ==
    /\ errors = << >>
    /\ \A u \in Units : ustat[u] = "consumed" /\ ures[u].df = 0 /\ ~ures[u].error

\* C18: a period whose units all returned Empty (no rows, no error) is not
\* added to the failed list when main accounts for it.
C18_EmptyPeriodNotFailed ==
    [][ (pc = "returned" /\ variant # "local" /\ AllUnitsEmpty) =>
            failed' = failed ]_vars

\* C19: the store calls of a Loader run are issued in the order Delete,
\* Insert, Verify, each after the one before it has returned, and a run that
\* returns for a non-empty table has issued all three and returns the count
\* read by Verify.
C19_LoaderOrder ==
    /\ \E k \in 0..3 : issued = SubSeq(<< "delete", "insert", "verify" >>, 1, k)
    /\ (pc = "returned" /\ combined > 0) =>
           /\ issued = << "delete", "insert", "verify" >>
           /\ uploaded = VerifyCount(store, cur)
           /\ results[Len(results)].ret = uploaded

\* C20: a unit whose every request raised has made exactly as many requests
\* as its retry loop allows, has slept once between two requests and not
\* after the last, and has returned an error without rows.
C20_ExhaustedRetries ==
    \A u \in Units :
        /\ Len(hist[u]) <= LoopBound(variant, max_retries)
        /\ (Terminal(u) /\ AllErr(u)) =>
               /\ Len(hist[u]) = LoopBound(variant, max_retries)
               /\ sleeps[u] = Len(hist[u]) - 1
               /\ ures[u].df = 0
               /\ ures[u].error

\* how many times unit u occurs in the sequence s
Occurrences(s, u) == Cardinality({i \in 1..Len(s) : s[i] = u})

\* C21: when a period's assembly starts, every unit was started and its one
\* result consumed, and all_data holds every unit that returned rows exactly
\* once (a retried unit included) and no other unit.
C21_EachUnitOnce ==
    (pc \in {"upload", "returned"}) =>
        /\ completed = NumUnits
        /\ \A u \in Units :
             /\ ustat[u] = "consumed"
             /\ Occurrences(all_data, u) = IF ures[u].df > 0 THEN 1 ELSE 0

\* a unit that was retried is in the table once, the pool having finished
\* the units against their submission order
C21_Witness ==
    /\ pc = "upload"
    /\ variant \in PoolVariants
    /\ all_data = << 2, 1 >>
    /\ hist[1] = << "err", "rows" >>
    /\ combined = SetRows(Units)

\* C22: when a period's collection ends, every pool unit that used up its
\* attempts on requests that raised has exactly one entry in the period's
\* error list, and every sibling unit was run to its end and consumed.
C22_FailureRecorded ==
    (variant \in PoolVariants /\ pc \in {"upload", "returned"}) =>
        \A u \in Units :
            /\ ustat[u] = "consumed"
            /\ FailedAll(u) => Occurrences(errors, u) = 1

\* C27: at every moment the units whose collect_day is in progress (between
\* its start in a worker and its return, retries and sleeps included) are at
\* most max_workers; a unit beyond that stays queued.
C27_BoundedConcurrency ==
    /\ Cardinality(Running) <= workers
    /\ \A u \in Units : ustat[u] = "queued" => attempt[u] = 0

\* one worker for two units: the first is between two requests of its retry
\* loop while the second waits in the pool's queue
C27_Witness ==
    /\ variant \in PoolVariants
    /\ workers = 1
    /\ workers < NumUnits
    /\ ustat = << "running", "queued" >>
    /\ attempt[1] >= 1
    /\ sleeps[1] >= 1

\* a unit whose first response was transport-successful without data rows
NoDataFirst(u) == hist[u] # << >> /\ hist[u][1] \in {"blank", "hdr"}

\* C29: a unit whose response has an empty body or a header without data
\* rows ends at once as "no data": one request, no sleep, no exception, no
\* rows and no error.
C29_EmptyNotFailure ==
    \A u \in Units :
        NoDataFirst(u) =>
            /\ Len(hist[u]) = 1
            /\ sleeps[u] = 0
            /\ ustat[u] \in {"done", "consumed"}
            /\ ures[u] = [df |-> 0, error |-> FALSE]
            /\ Occurrences(errors, u) = 0

\* the pcs at which a store call of the Loader is being made
LoaderPcs == {"upload", "delete", "insert", "verify"}

\* C25: while the Loader of a period is at work (from its entry to its last
\* store call) no unit of the period's pool is queued or running: every unit
\* was run to its end and its result consumed, and the Loader works on the
\* one period the main loop is at.
C25_NoWriteWhileFetching ==
    (variant \in PoolVariants /\ pc \in LoaderPcs) =>
        /\ Running = {}
        /\ \A u \in Units : ustat[u] = "consumed"
        /\ completed = NumUnits
        /\ cur = LoopList[pos]

\* the Delete of a period was applied and its Insert is about to run, after
\* a fan-out whose units both returned rows
C25_Witness ==
    /\ variant = "parallel"
    /\ pc = "insert"
    /\ issued = << "delete" >>
    /\ Len(all_data) = NumUnits
    /\ completed = NumUnits
    /\ store[cur] = << >>
    /\ store0[cur] # << >>

\* C26: a step changes the stored rows only if it is the Loader's Delete or
\* Insert call: the step is taken at that call, is the call just issued and
\* changes no period but the one being loaded.
C26_OnlyLoaderWrites ==
    [][store' # store =>
          /\ pc \in {"delete", "insert"}
          /\ issued' = Append(issued, pc)
          /\ \A q \in Periods : q # cur => store'[q] = store[q]]_vars

\* a whole Loader run with a verify step is over: the period was rewritten,
\* and the verify step and everything before the Loader left the store alone
C26_Witness ==
    /\ variant \in {"parallel", "direct"}
    /\ pc = "returned"
    /\ issued = << "delete", "insert", "verify" >>
    /\ store[cur] # store0[cur]
    /\ \A q \in Periods : q # cur => store[q] = store0[q]
    /\ uploaded = combined

\* how many times the Loader of the current period reached its first store
\* call
LoaderRuns(is) == Occurrences(is, LoaderSteps(variant)[1])

\* the Loader let an exception of a store call go
LoaderRaised == pc = "raised" /\ exc = "exc"

\* C23 as stated, for every collector: the Loader of a period runs at most
\* once, and a period whose Loader raised is not fetched again.
C23_NoPeriodRetry ==
    [][/\ LoaderRuns(issued') <= 1
       /\ LoaderRaised => pc' # "fanout"]_vars

\* C23, amended: the main loop never goes back in the plan; in the parallel,
\* direct, 2025 and 2020 collectors the Loader of a period runs at most once
\* and a period whose Loader raised is left for the next one; the pybaseball
\* collector fetches and loads such a period again while it has attempts
\* left, at most max_retries in all.
C23_RetryOnlyInLocal ==
    [][/\ pos' >= pos
       /\ variant # "local" =>
             /\ LoaderRuns(issued') <= 1
             /\ LoaderRaised => (pc' = "loop" /\ pos' = pos + 1)
       /\ variant = "local" =>
             /\ LoaderRuns(issued') <= max_retries
             /\ attempt'[1] <= max_retries
             /\ LoaderRaised =>
                   /\ pos' = pos
                   /\ pc' = IF attempt[1] < max_retries THEN "fanout"
                            ELSE "returned"]_vars

\* the Insert of the first period raised after its Delete: the main loop is
\* at the second period and the first was not loaded again
C23_Witness ==
    /\ variant \in {"parallel", "direct"}
    /\ pc = "loop"
    /\ pos = 2
    /\ failed = << LoopList[1] >>
    /\ store[LoopList[1]] = << >>
    /\ faults = MaxFaults

\* period p comes before period q in (year, month) order
PeriodBefore(p, q) == p[1] < q[1] \/ (p[1] = q[1] /\ p[2] < q[2])

\* the sequence s is strictly ascending in (year, month) order
Ascending(s) == \A i \in 1..Len(s) : \A j \in 1..Len(s) :
                    i < j => PeriodBefore(s[i], s[j])

\* the periods of the plan, in the order the main loop meets them
PlanSeq == SelectSeq(LoopList, LAMBDA p : p \in PlanSet)

\* C30: once the Planner is done it has issued one count query per candidate
\* period, in candidate order; the plan is strictly ascending in (year,
\* month) order (so no period is listed twice) and lists every candidate
\* whose count is below the threshold; and the main loop walks the plan
\* forward one period at a time: the period it starts is the plan period at
\* its position, and it leaves a plan period only after having started it.
C30_PlanOrdered ==
    [][(variant \in PlannerVariants /\ pc # "plan") =>
          /\ queried = CandidateSeq(variant)
          /\ Ascending(PlanSeq)
          /\ \A p \in SeqSet(CandidateSeq(variant)) :
                Count(p) < Threshold => Occurrences(PlanSeq, p) = 1
          /\ pos' \in {pos, pos + 1}
          /\ (pc = "loop" /\ pc' = "fanout") =>
                /\ cur' = LoopList[pos]
                /\ cur' \in PlanSet
                /\ pos' = pos
          /\ (pos' = pos + 1 /\ LoopList[pos] \in PlanSet) =>
                /\ cur = LoopList[pos]
                /\ pc # "loop"]_vars

\* the second period of a plan of the direct collector is being collected,
\* the first is done and a candidate with enough rows was left out
C30_Witness ==
    /\ variant = "direct"
    /\ pc = "fanout"
    /\ pos = 2
    /\ Len(todo) >= 2
    /\ Len(todo) < Len(CandidateSeq(variant))
    /\ cur = todo[2]
    /\ PeriodBefore(todo[1], cur)
    /\ successful = 1

\* C24: in the run that follows a run which left a period without rows (its
\* Delete applied, its Insert not landed), the Planner, once it has returned
\* (no count query of it raised, no interrupt ended it), has counted that
\* period below the threshold and planned it; and once that run's Loader
\* has returned for the period, the period holds exactly one generation of
\* rows: the table just loaded.
C24_CrashRecovery ==
    (run = 2 /\ pc \notin {"plan", "crashed"}) =>
        /\ \A p \in Periods : store[p] = << >> =>
              /\ Count(p) < Threshold
              /\ p \in PlanSet
        /\ (pc = "returned" /\ store0[cur] = << >> /\ uploaded > 0) =>
              /\ cur \in PlanSet
              /\ Len(store[cur]) = 1
              /\ Count(cur) = combined
              /\ store[cur][1].gen = loads

\* the second run has loaded the period the first run had left empty when it
\* was cut short between Delete and Insert
C24_Witness ==
    /\ run = 2
    /\ pc = "returned"
    /\ exc = "none"
    /\ faults = MaxFaults
    /\ loads = 1
    /\ store0[cur] = << >>
    /\ Len(store[cur]) = 1
    /\ uploaded = combined
    /\ uploaded > 0

\* C28: every fan-out ends with all of its units consumed, and the run ends
\* at its final summary with the main loop past the last period of its list.
C28_Termination ==
    /\ [](pc = "fanout" =>
            <>(pc # "fanout" /\ \A u \in Units : ustat[u] \in {"consumed", "unused"}))
    /\ <>(pc = "done" /\ pos > Len(LoopList))

\* the step is a fetch of the month that got response r
FetchedNow(r) ==
    /\ Len(hist'[1]) = Len(hist[1]) + 1
    /\ hist'[1][Len(hist'[1])] = r

\* C33: in the pybaseball collector a fetch whose table is empty or fails
\* validation (a required field entirely null, or missing) issues neither
\* Delete nor Insert, leaves the stored rows as they are and makes
\* collect_month return 0.
C33_ValidationBeforeStore ==
    [][\A r \in {"blank", "hdr", "badrows", "nocol"} :
          FetchedNow(r) =>
              /\ store' = store
              /\ issued' = issued
              /\ pc' = "returned"
              /\ uploaded' = 0]_vars

\* the periods main has accounted for so far: those before the loop position
\* that were not skipped, and the current one while main pauses after it
AttemptedSet ==
    LET upto == IF pc = "pause" THEN pos ELSE pos - 1
    IN {LoopList[i] : i \in {k \in 1..Len(LoopList) : k <= upto}} \ 
           (IF variant = "local" THEN existing ELSE {})

RECURSIVE SumCounts(_)
SumCounts(S) ==
    IF S = {} THEN 0
    ELSE LET p == CHOOSE x \in S : TRUE IN Count(p) + SumCounts(S \ {p})

\* C34: in a run of the parallel, direct or pybaseball collector that is not
\* interrupted, at every point every period accounted for is either counted
\* in successful or listed in failed, never both and never twice, and
\* total_collected is the sum of the counts the Loader verified for the
\* successful periods (a failed period adds 0).
C34_SummaryAccounting ==
    (variant \in {"parallel", "direct", "local"} /\ pc \notin {"plan", "crashed"}) =>
        /\ successful + Len(failed) = Cardinality(AttemptedSet)
        /\ SeqSet(failed) \subseteq AttemptedSet
        /\ Cardinality(SeqSet(failed)) = Len(failed)
        /\ total_collected = SumCounts(AttemptedSet \ SeqSet(failed))

\* the run is at its summary with one period loaded and counted, one listed
\* as failed after a store call raised, and the total that of the loaded one
C34_Witness ==
    /\ variant \in {"parallel", "direct", "local"}
    /\ pc = "done"
    /\ successful >= 1
    /\ Len(failed) >= 1
    /\ faults = MaxFaults
    /\ total_collected > 0
    /\ \E p \in SeqSet(failed) : store[p] = << >>

\* the days of the window of (y, m): from its start day through the last
\* calendar day of the month
WindowDays(y, m) == StartDate(y, m)[3]..DaysInMonth(y, m)

\* C31: when the expansion loop of a daily collector is over, the unit dates
\* are exactly the days of the period's window, one after the other: valid
\* calendar dates of that month, ascending, none twice, none left out.
C31_DailyExpansion ==
    (pc = "expanded" /\ variant \in PoolVariants) =>
        /\ Len(dates) = Cardinality(WindowDays(year, month))
        /\ \A i \in 1..Len(dates) :
              dates[i] = << year, month, StartDate(year, month)[3] + i - 1 >>
        /\ \A i \in 1..Len(dates) : dates[i][3] <= DaysInMonth(year, month)

\* C32: when the chunking loop of the direct collector is over, the chunks
\* partition the window: the first starts at the window start, the last
\* ends at the window end, each spans 1 to 7 days of the month and starts
\* the day after the one before it ends; the loop makes at most five passes.
C32_WeeklyPartition ==
    /\ Len(chunks) <= 5
    /\ (pc = "expanded" /\ variant = "direct") =>
        /\ chunks # << >>
        /\ chunks[1][1] = StartDate(year, month)
        /\ chunks[Len(chunks)][2] = << year, month, DaysInMonth(year, month) >>
        /\ \A i \in 1..Len(chunks) :
              /\ chunks[i][1][1] = year /\ chunks[i][1][2] = month
              /\ chunks[i][2][1] = year /\ chunks[i][2][2] = month
              /\ chunks[i][2][3] - chunks[i][1][3] + 1 \in 1..7
              /\ i > 1 => chunks[i][1] = NextDay(chunks[i - 1][2])
        /\ \A d \in WindowDays(year, month) :
              Cardinality({i \in 1..Len(chunks) :
                              chunks[i][1][3] <= d /\ d <= chunks[i][2][3]}) = 1

\* February of a leap year was cut into four full weeks and a last chunk of
\* one day
C32_Witness ==
    /\ pc = "expanded"
    /\ variant = "direct"
    /\ year = 2024
    /\ month = 2
    /\ Len(chunks) = 5
    /\ chunks[5] = << << 2024, 2, 29 >>, << 2024, 2, 29 >> >>

\* the responses of the current fetch_with_retry call before its last one
\* were all failures
FailedBefore(k) == \A i \in 1..(k - 1) : hist[1][i] # "ok"

\* C35: for max_retries >= 1, fetch_with_retry makes at most max_retries
\* requests and none after a successful one; it has slept 1, 2, 4, ...
\* seconds once after every failed attempt but the last; it returns the
\* body of its first successful request, or lets the exception of attempt
\* max_retries go when all attempts failed, and ends in no other way; and
\* its caller gets the roster exactly when it returned.
C35_FetchWithRetry ==
    (max_retries >= 1 /\ pc \in {"fetch", "fetched"}) =>
        LET n == Len(hist[1]) IN
          /\ n <= max_retries
          /\ n = attempt[1]
          /\ FailedBefore(n)
          /\ fres.kind \in {"pending", "json", "raised"}
          /\ pc = "fetched" <=> fres.kind \in {"json", "raised"}
          /\ fres.kind = "pending" =>
                /\ n < max_retries
                /\ n > 0 => hist[1][n] # "ok"
                /\ Len(waited) = n
          /\ fres.kind = "json" =>
                /\ hist[1][n] = "ok"
                /\ fres.of = n
                /\ Len(waited) = n - 1
          /\ fres.kind = "raised" =>
                /\ n = max_retries
                /\ hist[1][n] # "ok"
                /\ fres.of = max_retries
                /\ Len(waited) = max_retries - 1
          /\ \A i \in 1..Len(waited) : waited[i] = 2 ^ (i - 1)

\* three attempts failed in three different ways: two sleeps of 1 and 2
\* seconds, none after the third, whose exception reaches get_team_rosters
C35_Witness ==
    /\ pc = "fetched"
    /\ max_retries = 3
    /\ hist[1] = << "timeout", "http", "badjson" >>
    /\ waited = << 1, 2 >>
    /\ fres = [kind |-> "raised", of |-> 3]
    /\ pos = 2
    /\ all_data = << 1 >>

====
